---- MODULE Spec2Model ----
(***************************************************************************)
(* Verification model of the QUANT repository:                             *)
(*   - jobs_data/cronjob_prices.py     incremental price update and merge   *)
(*   - jobs_data/cronjob_companies.py  parallel company-detail fetch        *)
(*   - jobs_data/auxiliar.py           parallel_apply                       *)
(*   - strategies/momentum_trading.py  signals, backtest, report, grid      *)
(* Each pipeline has its own specification (SpecPrices, ...); the variables *)
(* of the other pipelines stay at their initial values.                     *)
(***************************************************************************)
EXTENDS Integers, Sequences, FiniteSets, TLC

VARIABLES
    \* ---- cronjob_prices.py ----
    csv_exists,     \* os.path.exists(csv_file)
    csv_file,       \* the rows of companies_prices_table.csv, as text
    today,          \* datetime.today(), as a day number
    runs,           \* number of runs of the job so far
    fetched,        \* history: per company, what its fetch returned in the last run
    prevFetched,    \* history: the same for the run before
    before,         \* history: csv_file as it was before the last run
    beforeExists,   \* history: csv_exists before the last run
    latest,         \* history: (codCVM, day) -> price of the most recent fetch
    \* ---- momentum_trading.py: momentum_strategy, backtest_strategy ----
    prices,         \* the closing prices handed to momentum_strategy
    short_window,
    long_window,
    signals,        \* the frame momentum_strategy returned
    portfolio,      \* the frame backtest_strategy returned
    mpc,            \* "input", "signals" or "portfolio"
    \* ---- momentum_trading.py: generate_report ----
    rp_portfolio,   \* the portfolio frame handed to generate_report
    rp_report,      \* what generate_report computed
    rp_pc,          \* "call", "returned" or "IndexError"
    \* ---- momentum_trading.py: grid_search ----
    gs_data,        \* data: per ticker, whether df has 'Close' and 3 rows or more
    gs_short_range,
    gs_long_range,
    gs_ticker,      \* position of the ticker loop in data.items()
    gs_k,           \* position of the pair loop in product(...)
    best_sharpe,
    best_combination,
    best_params,
    gs_pc,          \* "tickers", "pairs", "returned", "TypeError", "IndexError"
    gs_evaluated,   \* history: the pairs evaluated for the ticker, with their Sharpe
    gs_visited,     \* history: the pairs enumerated for the ticker
    gs_recorded,    \* history: the ticker whose record was just stored, or 0
    \* ---- cronjob_companies.py / auxiliar.py: parallel company fetch ----
    URL_DETAILED_AUX,   \* the module-level dict every call of fetch_company_info uses
    task_pc,        \* per submitted row: "queued", "running", "set", "encoded",
                    \* "done" or "raised"
    task_url,       \* per row: the codeCVM encoded in the url of its request
    task_res,       \* per row: the codeCVM the response describes
    collected,      \* the futures parallel_apply has taken from as_completed
    results,        \* parallel_apply's results list
    pa_pc           \* "collecting", "returned" or "raised"

pricesVars == <<csv_exists, csv_file, today, runs, fetched, prevFetched,
                before, beforeExists, latest>>

momentumVars == <<prices, short_window, long_window, signals, portfolio, mpc>>

reportVars == <<rp_portfolio, rp_report, rp_pc>>

gridVars == <<gs_data, gs_short_range, gs_long_range, gs_ticker, gs_k, best_sharpe,
              best_combination, best_params, gs_pc, gs_evaluated, gs_visited,
              gs_recorded>>

companyVars == <<URL_DETAILED_AUX, task_pc, task_url, task_res, collected, results,
                 pa_pc>>

vars == <<pricesVars, momentumVars, reportVars, gridVars, companyVars>>

\* Python's None (dates are day numbers >= 1, so 0 is free).
None == 0

Max(S) == CHOOSE x \in S : \A y \in S : y <= x

Range(f) == {f[i] : i \in DOMAIN f}

RECURSIVE Concat(_)
\* Concatenation of a sequence of sequences, in order.
Concat(ss) == IF ss = <<>> THEN <<>> ELSE Head(ss) \o Concat(Tail(ss))

(***************************************************************************)
(*                     cronjob_prices.py                                   *)
(***************************************************************************)

\* ---- bounds ----
MaxRuns == 2
MaxDay == 3

\* start_date = '2024-01-01' is day 1.
DefaultStart == 1

\* Adjusted closes the provider may quote (the values of the spec's example).
PriceValues == {10, 11}

\* companies_final.csv after head(25) and the '.SA' suffix: one row per
\* ticker code, so a company with two codes appears twice with one COD_CVM.
Companies ==
    << [COD_CVM |-> 1, codes |-> "AAAA3.SA"],
       [COD_CVM |-> 1, codes |-> "AAAA4.SA"],
       [COD_CVM |-> 2, codes |-> "BBBB3.SA"] >>

\* A cell of the Date column: a pandas Timestamp, or a str holding
\* "YYYY-MM-DD" (hms = FALSE) or "YYYY-MM-DD 00:00:00" (hms = TRUE).
Timestamp(d) == [type |-> "Timestamp", day |-> d, hms |-> FALSE]
DateStr(d, h) == [type |-> "str", day |-> d, hms |-> h]

\* .str.replace(' 00:00:00', '') followed by pd.to_datetime: the calendar day.
to_datetime(cell) == cell.day

\* What yf.download can answer for [start, end): an exception, an empty
\* frame, or one row per day of the range (end exclusive), quoting q.
ProviderResponses(start, end) ==
    {[kind |-> "error", quote |-> None], [kind |-> "empty", quote |-> None]}
    \cup (IF start < end
          THEN {[kind |-> "ok", quote |-> q] : q \in PriceValues}
          ELSE {})

\* fetch_stock_prices: None (here the empty sequence: a returned frame is
\* never empty) on an exception or an empty frame, else the frame
\* (codCVM, Date, preco_fechamento) with Timestamp dates.
fetch_stock_prices(resp, start_date, end_date, cod_cvm) ==
    IF resp.kind = "ok"
    THEN [i \in 1..(end_date - start_date) |->
            [codCVM |-> cod_cvm, Date |-> Timestamp(start_date + i - 1),
             preco_fechamento |-> resp.quote]]
    ELSE <<>>

\* get_last_saved_date: the greatest date of the file, None without a file.
get_last_saved_date(exists, file) ==
    IF exists THEN Max({to_datetime(file[i].Date) : i \in DOMAIN file})
    ELSE None

\* Mutant of all_prices: the first failed fetch ends the loop.
all_prices_abort(resps, start_date, end_date) ==
    LET firstBad == IF \E i \in DOMAIN resps : resps[i].kind # "ok"
                    THEN CHOOSE i \in DOMAIN resps :
                           /\ resps[i].kind # "ok"
                           /\ \A j \in 1..(i - 1) : resps[j].kind = "ok"
                    ELSE Len(resps) + 1
    IN [i \in 1..(firstBad - 1) |->
          fetch_stock_prices(resps[i], start_date, end_date, Companies[i].COD_CVM)]

\* The fetch loop: the frames of the entities whose fetch returned one, in
\* the order of the company rows.
all_prices(resps, start_date, end_date) ==
    LET res == [i \in DOMAIN resps |->
                  fetch_stock_prices(resps[i], start_date, end_date,
                                     Companies[i].COD_CVM)]
    IN SelectSeq(res, LAMBDA f : f # <<>>)

\* drop_duplicates(subset=['codCVM', 'Date'], keep='last'): a row stays
\* unless a later row has an equal codCVM and an equal Date cell (a str and
\* a Timestamp are never equal).
RECURSIVE drop_duplicates_from(_, _)
drop_duplicates_from(rows, i) ==
    IF i > Len(rows) THEN <<>>
    ELSE (IF \E j \in (i + 1)..Len(rows) :
                /\ rows[j].codCVM = rows[i].codCVM
                /\ rows[j].Date = rows[i].Date
          THEN <<>> ELSE <<rows[i]>>)
         \o drop_duplicates_from(rows, i + 1)

drop_duplicates_last(rows) == drop_duplicates_from(rows, 1)

\* Mutant of updated_data: the new rows replace the table.
updated_data_overwrite(exists, existing_data, prices_df) == prices_df

\* The merge: existing rows then new rows, deduplicated, when the file
\* exists; the new rows as they are otherwise.
updated_data(exists, existing_data, prices_df) ==
    IF exists THEN drop_duplicates_last(existing_data \o prices_df)
    ELSE prices_df

\* to_csv then read_csv: a datetime64 column is written as "YYYY-MM-DD"; an
\* object column keeps its strings and writes str(Timestamp), which is
\* "YYYY-MM-DD 00:00:00". read_csv gives the text back.
to_csv(rows) ==
    LET allTs == \A i \in DOMAIN rows : rows[i].Date.type = "Timestamp"
    IN [i \in DOMAIN rows |->
          IF rows[i].Date.type = "Timestamp"
          THEN [rows[i] EXCEPT !.Date = DateStr(rows[i].Date.day, ~allTs)]
          ELSE rows[i]]

Keys == {Companies[i].COD_CVM : i \in DOMAIN Companies} \X (1..(MaxDay + 1))

\* history: the price each key got from the most recent fetch returning it.
RECURSIVE LatestAfter(_, _, _, _, _)
LatestAfter(lat, resps, start_date, end_date, i) ==
    IF i > Len(resps) THEN lat
    ELSE LatestAfter(
           [k \in Keys |->
              IF /\ resps[i].kind = "ok"
                 /\ k[1] = Companies[i].COD_CVM
                 /\ k[2] >= start_date /\ k[2] < end_date
              THEN resps[i].quote ELSE lat[k]],
           resps, start_date, end_date, i + 1)

IdlePrices ==
    /\ csv_exists = FALSE
    /\ csv_file = <<>>
    /\ today = DefaultStart + 1
    /\ runs = 0
    /\ fetched = <<>>
    /\ prevFetched = <<>>
    /\ before = <<>>
    /\ beforeExists = FALSE
    /\ latest = [k \in Keys |-> None]

\* A day passes between two runs of the cron job.
Tick ==
    /\ today < MaxDay
    /\ today' = today + 1
    /\ UNCHANGED <<csv_exists, csv_file, runs, fetched, prevFetched, before,
                   beforeExists, latest>>
    /\ UNCHANGED <<momentumVars, reportVars, gridVars, companyVars>>

\* One run of the job (__main__).
RunJob ==
    /\ runs < MaxRuns
    /\ LET last_saved_date == get_last_saved_date(csv_exists, csv_file)
           start_date == IF last_saved_date # None THEN last_saved_date
                         ELSE DefaultStart
           end_date == today
       IN \E resps \in [DOMAIN Companies -> ProviderResponses(start_date, end_date)] :
            LET frames == all_prices(resps, start_date, end_date)
                prices_df == Concat(frames)
            IN /\ IF frames # <<>>
                  THEN /\ csv_file' = to_csv(updated_data(csv_exists, csv_file, prices_df))
                       /\ csv_exists' = TRUE
                  ELSE UNCHANGED <<csv_file, csv_exists>>
               /\ fetched' = [i \in DOMAIN Companies |->
                                [kind |-> resps[i].kind,
                                 rows |-> fetch_stock_prices(resps[i], start_date, end_date,
                                                             Companies[i].COD_CVM)]]
               /\ latest' = LatestAfter(latest, resps, start_date, end_date, 1)
    /\ prevFetched' = fetched
    /\ before' = csv_file
    /\ beforeExists' = csv_exists
    /\ runs' = runs + 1
    /\ UNCHANGED today
    /\ UNCHANGED <<momentumVars, reportVars, gridVars, companyVars>>

\* ---- claims on the price update ----

RowsOfKey(file, k) ==
    {i \in DOMAIN file : file[i].codCVM = k[1] /\ to_datetime(file[i].Date) = k[2]}

SomeFetchOk == \E i \in DOMAIN fetched : fetched[i].kind = "ok"

\* C1: after any sequence of runs the table holds at most one row per
\* (entity_id, date), and the price of a key is the one of the most recent
\* fetch that returned the key.
C1_UniqueKeepLast ==
    csv_exists =>
        \A k \in Keys :
            /\ Cardinality(RowsOfKey(csv_file, k)) <= 1
            /\ \A i \in RowsOfKey(csv_file, k) :
                   csv_file[i].preco_fechamento = latest[k]

\* C2: a run whose fetches return exactly the rows of the run before leaves
\* the table as the run before left it.
C2_Idempotent ==
    (runs >= 2 /\ fetched = prevFetched /\ SomeFetchOk) => csv_file = before

\* C3: a failed or empty fetch contributes no rows and does not abort the
\* run: after a run with at least one successful fetch, every row fetched by
\* a successful entity has its key in the table (with its own price unless a
\* later successful fetch of the same run returned the same key), and every
\* row of the table was in the table before or was fetched successfully.
C3_FailuresSkipped ==
    (runs >= 1 /\ SomeFetchOk) =>
        /\ csv_exists
        /\ \A i \in DOMAIN fetched : \A r \in DOMAIN fetched[i].rows :
              LET row == fetched[i].rows[r]
                  later == \E j \in (i + 1)..Len(fetched) :
                              /\ fetched[j].kind = "ok"
                              /\ Companies[j].COD_CVM = Companies[i].COD_CVM
              IN \E n \in DOMAIN csv_file :
                    /\ csv_file[n].codCVM = row.codCVM
                    /\ to_datetime(csv_file[n].Date) = to_datetime(row.Date)
                    /\ (~later => csv_file[n].preco_fechamento = row.preco_fechamento)
        /\ \A n \in DOMAIN csv_file :
              \/ beforeExists /\ csv_file[n] \in Range(before)
              \/ \E i \in DOMAIN fetched : \E r \in DOMAIN fetched[i].rows :
                    /\ fetched[i].kind = "ok"
                    /\ csv_file[n].codCVM = fetched[i].rows[r].codCVM
                    /\ to_datetime(csv_file[n].Date) = to_datetime(fetched[i].rows[r].Date)
                    /\ csv_file[n].preco_fechamento = fetched[i].rows[r].preco_fechamento

\* C3 witness: a run in which one fetch raised, one came back empty and the
\* third succeeded, whose rows are in the table.
C3_Witness ==
    /\ runs >= 1
    /\ \E i \in DOMAIN fetched : fetched[i].kind = "error"
    /\ \E i \in DOMAIN fetched : fetched[i].kind = "empty"
    /\ \E i \in DOMAIN fetched :
          /\ fetched[i].kind = "ok"
          /\ \A r \in DOMAIN fetched[i].rows : \E n \in DOMAIN csv_file :
                /\ csv_file[n].codCVM = fetched[i].rows[r].codCVM
                /\ csv_file[n].preco_fechamento = fetched[i].rows[r].preco_fechamento
                /\ to_datetime(csv_file[n].Date) = to_datetime(fetched[i].rows[r].Date)

\* C4: no (entity_id, date) key of the table before a run is missing from
\* the table after it.
C4_NoKeyLost ==
    (runs >= 1 /\ beforeExists) =>
        /\ csv_exists
        /\ \A i \in DOMAIN before : \E n \in DOMAIN csv_file :
              /\ csv_file[n].codCVM = before[i].codCVM
              /\ csv_file[n].Date = before[i].Date

\* C4 witness: a run over an existing table with a failed fetch and a
\* successful one, which changed the table.
C4_Witness ==
    /\ runs >= 2 /\ beforeExists
    /\ csv_file # before
    /\ \E i \in DOMAIN fetched : fetched[i].kind # "ok"
    /\ SomeFetchOk

NextPrices == Tick \/ RunJob

(***************************************************************************)
(*        momentum_trading.py: momentum_strategy, backtest_strategy        *)
(***************************************************************************)

\* ---- bounds ----
MaxLen == 5
MaxClose == 3
MaxWindow == 3

\* initial_capital=100000
InitialCapital == 100000

\* A float column cell that may be NaN.
NaN == [nan |-> TRUE, v |-> 0]
Num(x) == [nan |-> FALSE, v |-> x]

Abs(x) == IF x < 0 THEN -x ELSE x

RECURSIVE SumTo(_, _)
\* s[1] + ... + s[t]
SumTo(s, t) == IF t = 0 THEN 0 ELSE s[t] + SumTo(s, t - 1)

\* Series.cumsum()
cumsum(s) == [t \in DOMAIN s |-> SumTo(s, t)]

\* rolling(window, min_periods=1).mean() at sample t, as the exact fraction
\* <<sum, count>> over the trailing window (all samples while fewer exist).
rolling_mean(s, window, t) ==
    LET lo == IF t - window + 1 > 1 THEN t - window + 1 ELSE 1
    IN <<SumTo(s, t) - SumTo(s, lo - 1), t - lo + 1>>

\* a > b and a <= b on fractions with positive denominators.
Gt(a, b) == a[1] * b[2] > b[1] * a[2]
Le(a, b) == a[1] * b[2] <= b[1] * a[2]
Lt(a, b) == a[1] * b[2] < b[1] * a[2]

\* Mutant of signal_column: the second mask is strict, so a tie keeps 0.
signal_column_strict(short_mavg, long_mavg) ==
    LET s0 == [t \in DOMAIN short_mavg |-> 0]
        s1 == [t \in DOMAIN s0 |-> IF Gt(short_mavg[t], long_mavg[t]) THEN 1 ELSE s0[t]]
    IN [t \in DOMAIN s1 |-> IF Lt(short_mavg[t], long_mavg[t]) THEN -1 ELSE s1[t]]

\* signals['signal'] = 0, then the two .loc assignments.
signal_column(short_mavg, long_mavg) ==
    LET s0 == [t \in DOMAIN short_mavg |-> 0]
        s1 == [t \in DOMAIN s0 |-> IF Gt(short_mavg[t], long_mavg[t]) THEN 1 ELSE s0[t]]
    IN [t \in DOMAIN s1 |-> IF Le(short_mavg[t], long_mavg[t]) THEN -1 ELSE s1[t]]

\* Series.diff(): NaN in the first row.
diff(s) == [t \in DOMAIN s |-> IF t = 1 THEN NaN ELSE Num(s[t] - s[t - 1])]

\* Series.fillna(x)
fillna(s, x) == [t \in DOMAIN s |-> IF s[t].nan THEN x ELSE s[t].v]

\* Mutant of position_column: every crossover counts as a buy.
position_column_abs(signal) ==
    [t \in DOMAIN signal |-> Abs(fillna(diff(signal), 0)[t])]

\* signals['position'] = signals['signal'].diff().fillna(0)
position_column(signal) == fillna(diff(signal), 0)

momentum_strategy(p, short, long) ==
    LET short_mavg == [t \in DOMAIN p |-> rolling_mean(p, short, t)]
        long_mavg == [t \in DOMAIN p |-> rolling_mean(p, long, t)]
        signal == signal_column(short_mavg, long_mavg)
    IN [price |-> p, short_mavg |-> short_mavg, long_mavg |-> long_mavg,
        signal |-> signal, position |-> position_column(signal)]

\* signals['position'].cumsum(): the net position count.
NetPosition(sig) == cumsum(sig.position)

\* Series.pct_change(): NaN in the first row, else the fraction
\* (s[t] - s[t-1]) / s[t-1].
pct_change(s) ==
    [t \in DOMAIN s |->
        IF t = 1 THEN [nan |-> TRUE, num |-> 0, den |-> 1]
        ELSE [nan |-> FALSE, num |-> s[t] - s[t - 1], den |-> s[t - 1]]]

\* Mutant of backtest_strategy: cash is charged the current trade only, not
\* the running sum of the trades.
backtest_strategy_nocumsum(sig, initial_capital) ==
    LET net == NetPosition(sig)
        holdings == [t \in DOMAIN sig.price |-> net[t] * sig.price[t]]
        cash == [t \in DOMAIN sig.price |->
                    initial_capital - sig.position[t] * sig.price[t]]
        total == [t \in DOMAIN sig.price |-> holdings[t] + cash[t]]
    IN [price |-> sig.price, holdings |-> holdings, cash |-> cash,
        total |-> total, returns |-> pct_change(total)]

backtest_strategy(sig, initial_capital) ==
    LET net == NetPosition(sig)
        holdings == [t \in DOMAIN sig.price |-> net[t] * sig.price[t]]
        spent == cumsum([t \in DOMAIN sig.price |-> sig.position[t] * sig.price[t]])
        cash == [t \in DOMAIN sig.price |-> initial_capital - spent[t]]
        total == [t \in DOMAIN sig.price |-> holdings[t] + cash[t]]
    IN [price |-> sig.price, holdings |-> holdings, cash |-> cash,
        total |-> total, returns |-> pct_change(total)]

EmptyFrame == [price |-> <<>>]

IdleMomentum ==
    /\ prices = <<>>
    /\ short_window = 1
    /\ long_window = 1
    /\ signals = EmptyFrame
    /\ portfolio = EmptyFrame
    /\ mpc = "input"

InitMomentum ==
    /\ prices \in UNION {[1..n -> 1..MaxClose] : n \in 0..MaxLen}
    /\ short_window \in 1..MaxWindow
    /\ long_window \in 1..MaxWindow
    /\ signals = EmptyFrame
    /\ portfolio = EmptyFrame
    /\ mpc = "input"

CallMomentum ==
    /\ mpc = "input"
    /\ signals' = momentum_strategy(prices, short_window, long_window)
    /\ mpc' = "signals"
    /\ UNCHANGED <<prices, short_window, long_window, portfolio>>
    /\ UNCHANGED <<pricesVars, reportVars, gridVars, companyVars>>

CallBacktest ==
    /\ mpc = "signals"
    /\ portfolio' = backtest_strategy(signals, InitialCapital)
    /\ mpc' = "portfolio"
    /\ UNCHANGED <<prices, short_window, long_window, signals>>
    /\ UNCHANGED <<pricesVars, reportVars, gridVars, companyVars>>

NextMomentum == CallMomentum \/ CallBacktest

\* ---- claims on the momentum strategy ----

\* Number of crossovers (nonzero positions) up to and including sample t.
Crossovers(sig, t) == Cardinality({i \in 1..t : sig.position[i] # 0})

\* C5: with 0 < short_window < long_window the frame has one row per
\* sample, signal is +1 where short_mavg > long_mavg and -1 elsewhere,
\* position[0] = 0, position[t] = signal[t] - signal[t-1], so position is in
\* {-2, 0, 2} and nonzero exactly where signal changes.
C5_SignalsAndPositions ==
    (mpc # "input" /\ 0 < short_window /\ short_window < long_window) =>
        /\ Len(signals.signal) = Len(prices)
        /\ Len(signals.position) = Len(prices)
        /\ \A t \in DOMAIN prices :
              /\ signals.signal[t] =
                    (IF Gt(signals.short_mavg[t], signals.long_mavg[t]) THEN 1 ELSE -1)
              /\ signals.position[t] =
                    (IF t = 1 THEN 0 ELSE signals.signal[t] - signals.signal[t - 1])
              /\ signals.position[t] \in {-2, 0, 2}
              /\ (signals.position[t] # 0) <=>
                    (t > 1 /\ signals.signal[t] # signals.signal[t - 1])

\* C5 witness: a frame with a bullish crossover, a bearish crossover and a
\* sample after the first where the two averages tie.
C5_Witness ==
    /\ mpc = "signals"
    /\ 0 < short_window /\ short_window < long_window
    /\ \E t \in DOMAIN prices : signals.position[t] = 2
    /\ \E t \in DOMAIN prices : signals.position[t] = -2
    /\ \E t \in DOMAIN prices :
          /\ t > 1
          /\ ~Gt(signals.short_mavg[t], signals.long_mavg[t])
          /\ ~Lt(signals.short_mavg[t], signals.long_mavg[t])

\* C10 as stated: the net position count scales with the cumulative count
\* of crossovers, each crossover compounding the exposure by one more step
\* of 2, so that it is not confined to a fixed band.
C10_ScalesWithCrossovers ==
    mpc = "portfolio" =>
        \A t \in DOMAIN prices :
            Abs(NetPosition(signals)[t]) = 2 * Crossovers(signals, t)

\* C10 amended: the net position count is signal[t] - signal[0]; successive
\* crossovers alternate in direction and cancel, so it stays in {-2, 0, 2}
\* whatever the number of crossovers, and holdings are that count times the
\* price.
C10_NetPositionBounded ==
    mpc = "portfolio" =>
        \A t \in DOMAIN prices :
            /\ NetPosition(signals)[t] = signals.signal[t] - signals.signal[1]
            /\ NetPosition(signals)[t] \in {-2, 0, 2}
            /\ portfolio.holdings[t] =
                  (signals.signal[t] - signals.signal[1]) * prices[t]

\* C10 witness: a backtest over a frame with at least three crossovers.
C10_Witness ==
    /\ mpc = "portfolio"
    /\ Len(prices) > 0
    /\ Crossovers(signals, Len(prices)) >= 3
    /\ \E t \in DOMAIN prices : NetPosition(signals)[t] = 2

\* ---- backtest_strategy on any signal frame ----

\* ---- bounds ----
MaxFrameLen == 4

\* Values of signals['position'] in a frame handed to backtest_strategy.
PositionValues == {-2, 0, 2}

\* backtest_strategy reads the columns price and position only.
InitBacktest ==
    /\ \E n \in 0..MaxFrameLen :
          \E p \in [1..n -> 1..MaxClose] : \E pos \in [1..n -> PositionValues] :
             signals = [price |-> p, short_mavg |-> <<>>, long_mavg |-> <<>>,
                        signal |-> <<>>, position |-> pos]
    /\ prices = signals.price
    /\ short_window = 1
    /\ long_window = 1
    /\ portfolio = EmptyFrame
    /\ mpc = "signals"

NextBacktest == CallBacktest

\* C11: the backtest is self-financing. For a frame whose first position is
\* 0, total[0] is the initial capital; for t > 0, total[t] - total[t-1] is
\* the running sum of position up to t-1 times price[t] - price[t-1]; the
\* trade at t takes position[t] * price[t] from cash and adds the same
\* amount to holdings, so it leaves total as the price move alone made it.
C11_SelfFinancing ==
    (mpc = "portfolio" /\ Len(signals.price) > 0 /\ signals.position[1] = 0) =>
        LET net == NetPosition(signals)
            p == signals.price
        IN /\ portfolio.total[1] = InitialCapital
           /\ \A t \in 2..Len(p) :
                 /\ portfolio.total[t] - portfolio.total[t - 1]
                       = net[t - 1] * (p[t] - p[t - 1])
                 /\ portfolio.cash[t] - portfolio.cash[t - 1]
                       = -(signals.position[t] * p[t])
                 /\ portfolio.holdings[t] - portfolio.holdings[t - 1]
                       = signals.position[t] * p[t] + net[t - 1] * (p[t] - p[t - 1])

\* C11 witness: a backtest of a frame starting flat, with a trade at a
\* sample where an open position and a price move change total.
C11_Witness ==
    /\ mpc = "portfolio"
    /\ Len(signals.price) > 2
    /\ signals.position[1] = 0
    /\ \E t \in 2..Len(signals.price) :
          /\ signals.position[t] # 0
          /\ NetPosition(signals)[t - 1] # 0
          /\ signals.price[t] # signals.price[t - 1]
          /\ portfolio.total[t] # portfolio.total[t - 1]
          /\ portfolio.cash[t] # portfolio.cash[t - 1]

(***************************************************************************)
(*               momentum_trading.py: generate_report                      *)
(***************************************************************************)

\* ---- bounds ----
MaxSamples == 6

\* Values of portfolio['total'].
TotalValues == {InitialCapital, InitialCapital + 1}

\* portfolio.iloc[2:]
iloc_from_2(s) == SubSeq(s, 3, Len(s))

\* Series.std() (ddof = 1, NaN skipped), by class: "nan" with fewer than two
\* values, "zero" when all values are equal, else "positive".
std(returns) ==
    LET vals == {i \in DOMAIN returns : ~returns[i].nan}
    IN IF Cardinality(vals) < 2 THEN "nan"
       ELSE IF \A i, j \in vals :
                  returns[i].num * returns[j].den = returns[j].num * returns[i].den
            THEN "zero"
            ELSE "positive"

\* generate_report, with the figures by class. total.iloc[-1] on the frame
\* left by iloc[2:] raises IndexError when no row is left.
generate_report(pf) ==
    LET total == iloc_from_2(pf.total)
        returns == iloc_from_2(pf.returns)
    IN IF Len(total) = 0
       THEN [raised |-> "IndexError", volatility |-> "none", sharpe |-> "none"]
       ELSE LET last == total[Len(total)]
                first == total[1]
                \* sign of (1 + total_return) ** (252 / n) - 1, totals > 0
                annualized_return ==
                    IF last > first THEN "positive"
                    ELSE IF last < first THEN "negative" ELSE "zero"
                annualized_volatility == std(returns)
                \* a / v if v != 0 else nan; NaN != 0, and a / NaN is NaN
                sharpe_ratio ==
                    IF annualized_volatility = "zero" THEN "nan"
                    ELSE IF annualized_volatility = "nan" THEN "nan"
                    ELSE annualized_return
            IN [raised |-> "none", volatility |-> annualized_volatility,
                sharpe |-> sharpe_ratio]

NoReport == [raised |-> "none", volatility |-> "none", sharpe |-> "none"]

IdleReport ==
    /\ rp_portfolio = [total |-> <<>>, returns |-> <<>>]
    /\ rp_report = NoReport
    /\ rp_pc = "call"

InitReport ==
    /\ \E total \in UNION {[1..n -> TotalValues] : n \in 0..MaxSamples} :
          rp_portfolio = [total |-> total, returns |-> pct_change(total)]
    /\ rp_report = NoReport
    /\ rp_pc = "call"

CallGenerateReport ==
    /\ rp_pc = "call"
    /\ rp_report' = generate_report(rp_portfolio)
    /\ rp_pc' = IF rp_report'.raised = "none" THEN "returned" ELSE rp_report'.raised
    /\ UNCHANGED rp_portfolio
    /\ UNCHANGED <<pricesVars, momentumVars, gridVars, companyVars>>

NextReport == CallGenerateReport

\* ---- claims on generate_report ----

ConstantTotal(pf) ==
    /\ Len(pf.total) >= 1
    /\ \A i, j \in DOMAIN pf.total : pf.total[i] = pf.total[j]

\* C9: on a portfolio whose total is constant, whatever its number of
\* samples, generate_report finds volatility 0, yields the not-a-number
\* Sharpe ratio and does not raise.
C9_ConstantTotalNoRaise ==
    (rp_pc # "call" /\ ConstantTotal(rp_portfolio)) =>
        /\ rp_pc = "returned"
        /\ rp_report.volatility = "zero"
        /\ rp_report.sharpe = "nan"

(***************************************************************************)
(*                 momentum_trading.py: grid_search                        *)
(***************************************************************************)

\* ---- bounds ----
MaxGridWindow == 3
NumTickers == 2

\* A Python float: a number in thousandths, NaN or -inf.
Float(v) == [kind |-> "num", v |-> v]
FloatNaN == [kind |-> "nan", v |-> 0]
NegInf == [kind |-> "-inf", v |-> 0]

\* Sharpe ratios generate_report may compute (line 82), in thousandths.
SharpeValues == {FloatNaN, Float(1231), Float(1234), Float(1238)}

\* Python's a > b on floats: False whenever one side is NaN.
FloatGt(a, b) ==
    /\ a.kind # "nan" /\ b.kind # "nan"
    /\ a.kind # "-inf"
    /\ (b.kind = "-inf" \/ a.v > b.v)

\* f"{x:.2f}" then float(...): x rounded to hundredths (half to even); NaN
\* is printed "nan" and parsed back to NaN.
format_2f_float(x) ==
    IF x.kind # "num" THEN x
    ELSE LET a == Abs(x.v)
             q == a \div 10
             r == a % 10
             m == IF r > 5 \/ (r = 5 /\ q % 2 = 1) THEN q + 1 ELSE q
         IN Float(IF x.v < 0 THEN -(10 * m) ELSE 10 * m)

\* range(a, b + 1)
PyRange(a, b) == [i \in 1..(b - a + 1) |-> a + i - 1]

\* itertools.product(short_window_range, long_window_range), in order.
product(xs, ys) ==
    [n \in 1..(Len(xs) * Len(ys)) |->
        <<xs[((n - 1) \div Len(ys)) + 1], ys[((n - 1) % Len(ys)) + 1]>>]

Pairs == product(gs_short_range, gs_long_range)

NoRecord == [present |-> FALSE, short |-> 0, long |-> 0, sharpe |-> NegInf]

IdleGrid ==
    /\ gs_data = <<>>
    /\ gs_short_range = <<>>
    /\ gs_long_range = <<>>
    /\ gs_ticker = 1
    /\ gs_k = 1
    /\ best_sharpe = NegInf
    /\ best_combination = <<>>
    /\ best_params = <<>>
    /\ gs_pc = "tickers"
    /\ gs_evaluated = <<>>
    /\ gs_visited = <<>>
    /\ gs_recorded = 0

InitGrid ==
    /\ gs_data \in [1..NumTickers -> [hasClose : BOOLEAN, rows3 : BOOLEAN]]
    /\ \E a \in 1..MaxGridWindow : \E b \in a..MaxGridWindow :
          gs_short_range = PyRange(a, b)
    /\ \E a \in 1..MaxGridWindow : \E b \in a..MaxGridWindow :
          gs_long_range = PyRange(a, b)
    /\ gs_ticker = 1
    /\ gs_k = 1
    /\ best_sharpe = NegInf
    /\ best_combination = <<>>
    /\ best_params = [t \in 1..NumTickers |-> NoRecord]
    /\ gs_pc = "tickers"
    /\ gs_evaluated = <<>>
    /\ gs_visited = <<>>
    /\ gs_recorded = 0

\* for ticker, df in data.items(): 'Close' not in df -> continue
GS_NoClose ==
    /\ gs_pc = "tickers"
    /\ gs_ticker <= Len(gs_data)
    /\ ~gs_data[gs_ticker].hasClose
    /\ gs_ticker' = gs_ticker + 1
    /\ gs_evaluated' = <<>>
    /\ gs_visited' = <<>>
    /\ gs_recorded' = 0
    /\ UNCHANGED <<gs_data, gs_short_range, gs_long_range, gs_k, best_sharpe,
                   best_combination, best_params, gs_pc>>
    /\ UNCHANGED <<pricesVars, momentumVars, reportVars, companyVars>>

\* best_sharpe = -np.inf; best_combination = None
GS_StartTicker ==
    /\ gs_pc = "tickers"
    /\ gs_ticker <= Len(gs_data)
    /\ gs_data[gs_ticker].hasClose
    /\ best_sharpe' = NegInf
    /\ best_combination' = <<>>
    /\ gs_k' = 1
    /\ gs_pc' = "pairs"
    /\ gs_evaluated' = <<>>
    /\ gs_visited' = <<>>
    /\ gs_recorded' = 0
    /\ UNCHANGED <<gs_data, gs_short_range, gs_long_range, gs_ticker, best_params>>
    /\ UNCHANGED <<pricesVars, momentumVars, reportVars, companyVars>>

\* if short_window >= long_window: continue
GS_SkipPair ==
    /\ gs_pc = "pairs"
    /\ gs_k <= Len(Pairs)
    /\ Pairs[gs_k][1] >= Pairs[gs_k][2]
    /\ gs_k' = gs_k + 1
    /\ gs_visited' = Append(gs_visited, Pairs[gs_k])
    /\ UNCHANGED <<gs_data, gs_short_range, gs_long_range, gs_ticker, best_sharpe,
                   best_combination, best_params, gs_pc, gs_evaluated, gs_recorded>>
    /\ UNCHANGED <<pricesVars, momentumVars, reportVars, companyVars>>

\* generate_report raises IndexError on a series of fewer than 3 rows.
GS_EvaluateRaises ==
    /\ gs_pc = "pairs"
    /\ gs_k <= Len(Pairs)
    /\ Pairs[gs_k][1] < Pairs[gs_k][2]
    /\ ~gs_data[gs_ticker].rows3
    /\ gs_pc' = "IndexError"
    /\ gs_visited' = Append(gs_visited, Pairs[gs_k])
    /\ UNCHANGED <<gs_data, gs_short_range, gs_long_range, gs_ticker, gs_k,
                   best_sharpe, best_combination, best_params, gs_evaluated,
                   gs_recorded>>
    /\ UNCHANGED <<pricesVars, momentumVars, reportVars, companyVars>>

\* momentum_strategy, backtest_strategy, generate_report, then
\* float(report['Sharpe Ratio']) and the comparison with best_sharpe.
GS_Evaluate ==
    /\ gs_pc = "pairs"
    /\ gs_k <= Len(Pairs)
    /\ Pairs[gs_k][1] < Pairs[gs_k][2]
    /\ gs_data[gs_ticker].rows3
    /\ \E sharpe \in SharpeValues :
          LET sharpe_ratio == format_2f_float(sharpe)
          IN /\ IF FloatGt(sharpe_ratio, best_sharpe)
                THEN /\ best_sharpe' = sharpe_ratio
                     /\ best_combination' = Pairs[gs_k]
                ELSE UNCHANGED <<best_sharpe, best_combination>>
             /\ gs_evaluated' = Append(gs_evaluated,
                                       [pair |-> Pairs[gs_k], sharpe |-> sharpe])
    /\ gs_k' = gs_k + 1
    /\ gs_visited' = Append(gs_visited, Pairs[gs_k])
    /\ UNCHANGED <<gs_data, gs_short_range, gs_long_range, gs_ticker, best_params,
                   gs_pc, gs_recorded>>
    /\ UNCHANGED <<pricesVars, momentumVars, reportVars, companyVars>>

\* best_params[ticker] = {... best_combination[0] ...} with a combination
GS_Record ==
    /\ gs_pc = "pairs"
    /\ gs_k > Len(Pairs)
    /\ best_combination # <<>>
    /\ best_params' = [best_params EXCEPT ![gs_ticker] =
                          [present |-> TRUE, short |-> best_combination[1],
                           long |-> best_combination[2], sharpe |-> best_sharpe]]
    /\ gs_recorded' = gs_ticker
    /\ gs_ticker' = gs_ticker + 1
    /\ gs_pc' = "tickers"
    /\ UNCHANGED <<gs_data, gs_short_range, gs_long_range, gs_k, best_sharpe,
                   best_combination, gs_evaluated, gs_visited>>
    /\ UNCHANGED <<pricesVars, momentumVars, reportVars, companyVars>>

\* best_combination[0] with best_combination None: TypeError, not caught.
GS_RecordNone ==
    /\ gs_pc = "pairs"
    /\ gs_k > Len(Pairs)
    /\ best_combination = <<>>
    /\ gs_pc' = "TypeError"
    /\ UNCHANGED <<gs_data, gs_short_range, gs_long_range, gs_ticker, gs_k,
                   best_sharpe, best_combination, best_params, gs_evaluated,
                   gs_visited, gs_recorded>>
    /\ UNCHANGED <<pricesVars, momentumVars, reportVars, companyVars>>

\* return best_params
GS_Return ==
    /\ gs_pc = "tickers"
    /\ gs_ticker > Len(gs_data)
    /\ gs_pc' = "returned"
    /\ UNCHANGED <<gs_data, gs_short_range, gs_long_range, gs_ticker, gs_k,
                   best_sharpe, best_combination, best_params, gs_evaluated,
                   gs_visited, gs_recorded>>
    /\ UNCHANGED <<pricesVars, momentumVars, reportVars, companyVars>>

NextGrid ==
    \/ GS_NoClose \/ GS_StartTicker \/ GS_SkipPair \/ GS_EvaluateRaises
    \/ GS_Evaluate \/ GS_Record \/ GS_RecordNone \/ GS_Return

\* ---- claims on grid_search ----

\* C6: for a ticker whose record is stored, the whole product was
\* enumerated, no pair with short >= long was evaluated, and the recorded
\* pair is the valid pair whose Sharpe ratio is greatest among the valid
\* pairs, the first of them in enumeration order.
C6_BestPairSelected ==
    gs_recorded # 0 =>
        LET rec == best_params[gs_recorded] IN
        /\ gs_visited = Pairs
        /\ \A e \in DOMAIN gs_evaluated :
              gs_evaluated[e].pair[1] < gs_evaluated[e].pair[2]
        /\ rec.present /\ rec.short < rec.long
        /\ \E b \in DOMAIN gs_evaluated :
              /\ gs_evaluated[b].pair = <<rec.short, rec.long>>
              /\ gs_evaluated[b].sharpe.kind = "num"
              /\ \A e \in DOMAIN gs_evaluated :
                    gs_evaluated[e].sharpe.kind = "num" =>
                        /\ gs_evaluated[b].sharpe.v >= gs_evaluated[e].sharpe.v
                        /\ (gs_evaluated[e].sharpe.v = gs_evaluated[b].sharpe.v => b <= e)

\* C7: when every combination of a ticker is invalid, or none has a Sharpe
\* ratio above -inf, grid_search does not end with a fault at the record of
\* that ticker.
C7_AbsentNotFault == gs_pc # "TypeError"

(***************************************************************************)
(*     cronjob_companies.py: fetch_company_info under parallel_apply       *)
(***************************************************************************)

\* ---- bounds ----
\* Rows of df['codeCVM'] submitted, and threads of the pool (32 in the job).
NumRows == 3
MaxWorkers == 2

\* companies['codeCVM']: the code handed to each submitted call.
CodeOfRow == [i \in 1..NumRows |-> i]

\* "codeCVM": "10456" in the module-level dict, as a code outside the rows.
InitialCode == 0

Rows == 1..NumRows

Running == {i \in Rows : task_pc[i] \in {"running", "set", "encoded"}}

IdleCompanies ==
    /\ URL_DETAILED_AUX = [codeCVM |-> InitialCode, language |-> "pt-br"]
    /\ task_pc = <<>>
    /\ task_url = <<>>
    /\ task_res = <<>>
    /\ collected = {}
    /\ results = <<>>
    /\ pa_pc = "collecting"

InitCompanies ==
    /\ URL_DETAILED_AUX = [codeCVM |-> InitialCode, language |-> "pt-br"]
    /\ task_pc = [i \in Rows |-> "queued"]
    /\ task_url = [i \in Rows |-> InitialCode]
    /\ task_res = [i \in Rows |-> InitialCode]
    /\ collected = {}
    /\ results = <<>>
    /\ pa_pc = "collecting"

\* A free thread of the pool takes a submitted call.
WorkerStart(i) ==
    /\ task_pc[i] = "queued"
    /\ Cardinality(Running) < MaxWorkers
    /\ task_pc' = [task_pc EXCEPT ![i] = "running"]
    /\ UNCHANGED <<URL_DETAILED_AUX, task_url, task_res, collected, results, pa_pc>>
    /\ UNCHANGED <<pricesVars, momentumVars, reportVars, gridVars>>

\* config = URL_DETAILED_AUX; config['codeCVM'] = cod_cvm
\* (config is the module-level dict itself, not a copy).
SetCode(i) ==
    /\ task_pc[i] = "running"
    /\ URL_DETAILED_AUX' = [URL_DETAILED_AUX EXCEPT !.codeCVM = CodeOfRow[i]]
    /\ task_pc' = [task_pc EXCEPT ![i] = "set"]
    /\ UNCHANGED <<task_url, task_res, collected, results, pa_pc>>
    /\ UNCHANGED <<pricesVars, momentumVars, reportVars, gridVars>>

\* config = convert_to_base64(json.dumps(config)); url = URL_DETAILED + config
\* (the url encodes the dict as it is when json.dumps reads it).
EncodeUrl(i) ==
    /\ task_pc[i] = "set"
    /\ task_url' = [task_url EXCEPT ![i] = URL_DETAILED_AUX.codeCVM]
    /\ task_pc' = [task_pc EXCEPT ![i] = "encoded"]
    /\ UNCHANGED <<URL_DETAILED_AUX, task_res, collected, results, pa_pc>>
    /\ UNCHANGED <<pricesVars, momentumVars, reportVars, gridVars>>

\* res = make_request('GET', url): the detail of the company the url names.
RequestOk(i) ==
    /\ task_pc[i] = "encoded"
    /\ task_res' = [task_res EXCEPT ![i] = task_url[i]]
    /\ task_pc' = [task_pc EXCEPT ![i] = "done"]
    /\ UNCHANGED <<URL_DETAILED_AUX, task_url, collected, results, pa_pc>>
    /\ UNCHANGED <<pricesVars, momentumVars, reportVars, gridVars>>

\* make_request raises on a status other than 200 and 201.
RequestRaises(i) ==
    /\ task_pc[i] = "encoded"
    /\ task_pc' = [task_pc EXCEPT ![i] = "raised"]
    /\ UNCHANGED <<URL_DETAILED_AUX, task_url, task_res, collected, results, pa_pc>>
    /\ UNCHANGED <<pricesVars, momentumVars, reportVars, gridVars>>

\* for future in as_completed(futures): results.append(future.result())
Collect(i) ==
    /\ pa_pc = "collecting"
    /\ i \notin collected
    /\ task_pc[i] = "done"
    /\ collected' = collected \cup {i}
    /\ results' = Append(results, task_res[i])
    /\ UNCHANGED <<URL_DETAILED_AUX, task_pc, task_url, task_res, pa_pc>>
    /\ UNCHANGED <<pricesVars, momentumVars, reportVars, gridVars>>

\* future.result() re-raises the exception of a failed call.
CollectRaises(i) ==
    /\ pa_pc = "collecting"
    /\ i \notin collected
    /\ task_pc[i] = "raised"
    /\ collected' = collected \cup {i}
    /\ pa_pc' = "raised"
    /\ UNCHANGED <<URL_DETAILED_AUX, task_pc, task_url, task_res, results>>
    /\ UNCHANGED <<pricesVars, momentumVars, reportVars, gridVars>>

\* return results
ParallelApplyReturn ==
    /\ pa_pc = "collecting"
    /\ collected = Rows
    /\ pa_pc' = "returned"
    /\ UNCHANGED <<URL_DETAILED_AUX, task_pc, task_url, task_res, collected, results>>
    /\ UNCHANGED <<pricesVars, momentumVars, reportVars, gridVars>>

NextCompanies ==
    \/ \E i \in Rows : WorkerStart(i)
    \/ \E i \in Rows : SetCode(i)
    \/ \E i \in Rows : EncodeUrl(i)
    \/ \E i \in Rows : RequestOk(i)
    \/ \E i \in Rows : RequestRaises(i)
    \/ \E i \in Rows : Collect(i)
    \/ \E i \in Rows : CollectRaises(i)
    \/ ParallelApplyReturn

\* ---- claims on the parallel company fetch ----

\* C8: under every interleaving of the workers, the request a worker issues
\* encodes exactly the company code that worker was handed (no object a
\* worker writes is written by another one meanwhile).
C8_RequestEncodesOwnCode ==
    \A i \in DOMAIN task_pc :
        task_pc[i] \in {"encoded", "done", "raised"} => task_url[i] = CodeOfRow[i]

(***************************************************************************)
(*                          specifications                                 *)
(***************************************************************************)

InitSpecPrices ==
    IdlePrices /\ IdleMomentum /\ IdleReport /\ IdleGrid /\ IdleCompanies

SpecPrices == InitSpecPrices /\ [][NextPrices]_vars

InitSpecMomentum ==
    InitMomentum /\ IdlePrices /\ IdleReport /\ IdleGrid /\ IdleCompanies

SpecMomentum == InitSpecMomentum /\ [][NextMomentum]_vars

InitSpecReport ==
    InitReport /\ IdlePrices /\ IdleMomentum /\ IdleGrid /\ IdleCompanies

SpecReport == InitSpecReport /\ [][NextReport]_vars

InitSpecGrid ==
    InitGrid /\ IdlePrices /\ IdleMomentum /\ IdleReport /\ IdleCompanies

SpecGrid == InitSpecGrid /\ [][NextGrid]_vars

InitSpecBacktest ==
    InitBacktest /\ IdlePrices /\ IdleReport /\ IdleGrid /\ IdleCompanies

SpecBacktest == InitSpecBacktest /\ [][NextBacktest]_vars

InitSpecCompanies ==
    InitCompanies /\ IdlePrices /\ IdleMomentum /\ IdleReport /\ IdleGrid

SpecCompanies == InitSpecCompanies /\ [][NextCompanies]_vars

====
